---- MODULE Spec2Model ----
(***************************************************************************)
(* State-machine model of rabbitmq-lite:                                   *)
(*   RabbitMQConnection (src/lib/RabbitMQConnection.ts), the process-wide  *)
(*   connection manager, and RabbitMQClient (src/lib/Publisher.ts), the    *)
(*   transport client that owns the class-level amqp connection.           *)
(*   The Consumer base class is not among the sources; the handling of a   *)
(*   delivery follows section 4.3 of the specification.                    *)
(* JavaScript runs one callback at a time, so every action below is the    *)
(* code that runs between two awaits (or inside one event handler).        *)
(***************************************************************************)
EXTENDS Integers, Sequences, FiniteSets, TLC

\* ---------------------------------------------------------------- bounds
MaxClients == 3        \* RabbitMQClient instances that may be referenced at once
MaxConns == 2          \* physical connections that may be referenced at once
MaxConsumers == 2      \* distinct Consumer instances
MaxDeliveries == 1     \* messages the broker delivers to the consumers

Null == 0              \* null / "" of the source
RetryCount == 3        \* retry_count of a Consumer (its default)

ClientIds == 1..MaxClients
ConnIds == 1..MaxConns
ConsumerIds == 1..MaxConsumers
Deliveries == 1..MaxDeliveries    \* messages produced; concurrent handlers
MaxExecuted == RetryCount + 2     \* executions of one message that are followed

\* the methods of RabbitMQClient that use the channel, and their arguments
Methods == {"publish", "sendToQueue", "consume", "getConsumerCount"}
QueueNames == {<<"orders">>}
Payloads == {[n |-> 2]}
Delays == {0, 5}
HeaderObjects == {"x-delay" :> 9}
OptionsGiven ==
    [exchange : {<<>>, <<<<"ex">>>>}, routingKey : {<<>>},
     delay : {<<>>} \cup {<<d>> : d \in Delays},
     exchangeType : {<<>>},
     headers : {<<>>} \cup {<<h>> : h \in HeaderObjects}]
\* the messages of the errors a channel operation fails with
ErrorMessages == {"Channel closed", "Connection closed", "other"}

\* message bodies as they are on the wire
Texts == {"{\"n\":1}", "{ \"n\": 1 }", "{\"n\":2}"}
AppTasks == {"a1", "a2"}      \* application callers of the public API
LostTasks == {"h1", "h2"}     \* invocations of handleConnectionLost
Tasks == AppTasks \cup LostTasks
Urls == {"u1", "u2"}

\* the lists an application may register: no consumer, or all of them in order
ConsumerLists == {<<>>, [i \in 1..MaxConsumers |-> i]}

VARIABLES
    \* RabbitMQConnection (static fields)
    rabbitMQClient,         \* current client id, or Null
    connectionUrl,
    consumers,              \* registered consumer list
    isConnecting,
    isReconnecting,
    \* RabbitMQClient
    connection,             \* class-level amqp connection id, or Null
    channel,                \* client -> connection its channel runs on, or Null
    isConnected,            \* client -> BOOLEAN
    connectionLostCallback, \* client -> BOOLEAN (a callback is registered)
    \* transport (amqplib)
    alive,                  \* open physical connections
    closeHandler,           \* connection -> client whose 'close' handler it carries
    subscribed,             \* <<client, consumer>>: the consumer's callback is
                            \* subscribed to its queue on the client's channel
    deliveries,             \* delivery -> state of the consumer's handling of it
    broker,                 \* messages in the consumers' queues and error queues
    runs,                   \* message -> what its handling did so far (history)
    call,                   \* the application's call of a RabbitMQClient method
    cachedClient,           \* Publisher._rabbitMQClient: the client the publisher
                            \* resolved, none before its first use
    \* async invocations
    pc,                     \* task -> position
    retryOnFail,            \* task -> BOOLEAN (argument of connect)
    self,                   \* task -> client `this` of the pending client call
    conn,                   \* task -> connection of the pending transport call
    list,                   \* task -> array iterated by startConsumers
    idx,                    \* task -> index into list
    \* observation (history) variables
    inv,                    \* task -> consumers whose consume() the call invoked
    threw,                  \* the last step ended an invocation by an exception
    caught,                 \* the last step caught a failure of a consumer's consume()
    event,                  \* the transport event the last step delivered
    found,                  \* waiting task -> fate of the sequence it found in flight
    since,                  \* waiting task -> what happened after that sequence ended
    lostPending             \* the connected manager lost its connection and no
                            \* connect loop has succeeded since

mgrVars == <<rabbitMQClient, connectionUrl, consumers, isConnecting, isReconnecting>>
clientVars == <<connection, channel, isConnected, connectionLostCallback>>
netVars == <<alive, closeHandler, subscribed>>
taskVars == <<pc, retryOnFail, self, conn, list, idx, inv, threw, caught, event>>
histVars == <<found, since, lostPending>>
msgVars == <<deliveries, broker, runs>>
vars ==
    <<mgrVars, clientVars, netVars, msgVars, call, cachedClient, taskVars, histVars>>

\* ------------------------------------------------------------- helpers
\* The code of one step runs several statements in sequence, so the program
\* text is modelled as functions from a state record to a state record; an
\* action applies one of them to the current state.

\* no transport event
NoEvent == [kind |-> "none", k |-> Null]

Cur ==
    [rabbitMQClient |-> rabbitMQClient, connectionUrl |-> connectionUrl,
     consumers |-> consumers, isConnecting |-> isConnecting,
     isReconnecting |-> isReconnecting, connection |-> connection,
     channel |-> channel, isConnected |-> isConnected,
     connectionLostCallback |-> connectionLostCallback,
     alive |-> alive, closeHandler |-> closeHandler, subscribed |-> subscribed,
     deliveries |-> deliveries, broker |-> broker, runs |-> runs, call |-> call,
     cachedClient |-> cachedClient,
     pc |-> pc, retryOnFail |-> retryOnFail, self |-> self, conn |-> conn,
     list |-> list, idx |-> idx, inv |-> inv, threw |-> FALSE, caught |-> FALSE,
     event |-> NoEvent, note |-> {}]

\* what a step did, for the observation variables: "loopOk" / "loopThrew" (a
\* connect loop ended), "newSeq" (one began), "loss" (a connection closed under
\* the program), "disturb" (loss, channel closure, close() or reset())
Note(s, tags) == [s EXCEPT !.note = @ \cup tags]

\* RabbitMQClient.getConnectionStatus()
getConnectionStatus(s, c) == s.isConnected[c] /\ s.channel[c] # Null

\* RabbitMQConnection.isConnected()
IsConnectedIn(s) ==
    s.rabbitMQClient # Null /\ getConnectionStatus(s, s.rabbitMQClient)

IsConnected == IsConnectedIn(Cur)

\* client instances something still refers to
UsedClients(s) ==
    ({s.rabbitMQClient, s.call.k, s.cachedClient} \cup {s.self[t] : t \in Tasks}
       \cup {s.closeHandler[c] : c \in s.alive}
       \cup {s.deliveries[d].via : d \in Deliveries}
       \cup {c \in ClientIds : s.channel[c] # Null}) \ {Null}

\* connection objects something still refers to
UsedConns(s) ==
    (s.alive \cup {s.connection} \cup {s.conn[t] : t \in Tasks}
       \cup {s.channel[c] : c \in ClientIds}) \ {Null}

Min(S) == CHOOSE x \in S : \A y \in S : x <= y

\* `new`: the least id nothing refers to (one past the bound when none is left)
FreeClient(s) == Min((ClientIds \ UsedClients(s)) \cup {MaxClients + 1})
FreeConn(s) == Min((ConnIds \ UsedConns(s)) \cup {MaxConns + 1})

\* the ids a step allocated are within the bounds of the model
InBounds(n) ==
    /\ n.rabbitMQClient \in {Null} \cup ClientIds
    /\ n.connection \in {Null} \cup ConnIds
    /\ \A t \in Tasks : n.self[t] \in {Null} \cup ClientIds

\* the channel of client k (of no client: none)
channelOf(s, k) == IF k = Null THEN Null ELSE s.channel[k]

\* A pending transport call whose channel or connection is gone can only fail:
\* it no longer refers to it; a subscription ends with its channel; a handler
\* whose client lost its channel will find no channel on it.  An instance
\* nothing refers to is garbage: its fields are those of no instance.
Doomed(n) ==
    [n EXCEPT !.self = [t \in Tasks |->
                  IF n.pc[t] = "consume" /\ channelOf(n, @[t]) = Null
                  THEN Null ELSE @[t]],
              !.subscribed = {p \in @ : n.channel[p[1]] # Null},
              !.deliveries = [d \in Deliveries |->
                  IF channelOf(n, @[d].via) = Null
                  THEN [@[d] EXCEPT !.via = Null] ELSE @[d]],
              !.conn = [t \in Tasks |-> IF @[t] \in n.alive THEN @[t] ELSE Null]]

Collect(n) ==
    [n EXCEPT !.isConnected = [k \in ClientIds |-> k \in UsedClients(n) /\ @[k]],
              !.connectionLostCallback =
                  [k \in ClientIds |-> k \in UsedClients(n) /\ @[k]]]

\* deliveries whose handler has not acknowledged and whose channel is closed
Unacked(n) ==
    {d \in Deliveries : n.deliveries[d].via # Null
                          /\ n.channel[n.deliveries[d].via] = Null}

RECURSIVE UnackedMsgs(_, _)
UnackedMsgs(n, d) ==
    IF d = 0 THEN <<>>
    ELSE UnackedMsgs(n, d - 1)
           \o (IF d \in Unacked(n) THEN <<n.deliveries[d].msg>> ELSE <<>>)

\* the subscription is with manual acknowledgment: the broker puts the
\* unacknowledged deliveries of a closed channel back in their queue
requeue(n) ==
    LET Gone(h) == n.channel[h.via] = Null
        Kept(h) == ~Gone(h)
        Msg(i) == SelectSeq(n.broker.unacked, Gone)[i].msg
        left == [i \in 1..Len(SelectSeq(n.broker.unacked, Gone)) |-> Msg(i)]
    IN
    [n EXCEPT !.broker.ready = UnackedMsgs(n, MaxDeliveries) \o left \o @,
              !.broker.unacked = SelectSeq(@, Kept),
              !.runs = [m \in Deliveries |->
                  IF \E d \in Unacked(n) : n.deliveries[d].msg.id = m
                  THEN [@[m] EXCEPT !.disturbed = TRUE] ELSE @[m]]]

Set(m) ==
    \E m0 \in {m} : \E m1 \in {Doomed(requeue(m0))} : \E n \in {Collect(m1)} :
    /\ InBounds(n)
    /\ rabbitMQClient' = n.rabbitMQClient
    /\ connectionUrl' = n.connectionUrl
    /\ consumers' = n.consumers
    /\ isConnecting' = n.isConnecting
    /\ isReconnecting' = n.isReconnecting
    /\ connection' = n.connection
    /\ channel' = n.channel
    /\ isConnected' = n.isConnected
    /\ connectionLostCallback' = n.connectionLostCallback
    /\ alive' = n.alive
    /\ closeHandler' = n.closeHandler
    /\ subscribed' = n.subscribed
    /\ deliveries' = n.deliveries
    /\ broker' = n.broker
    /\ runs' = n.runs
    /\ pc' = n.pc
    /\ retryOnFail' = n.retryOnFail
    /\ self' = n.self
    /\ conn' = n.conn
    /\ list' = n.list
    /\ idx' = n.idx
    /\ inv' = n.inv
    /\ call' = n.call
    /\ cachedClient' = n.cachedClient
    /\ threw' = n.threw
    /\ caught' = n.caught
    /\ event' = n.event
    /\ found' = [t \in Tasks |->
          IF n.pc[t] # "waiting" THEN "none"
          ELSE IF pc[t] # "waiting" THEN "inflight"
          ELSE IF found[t] = "inflight" /\ "loopOk" \in n.note THEN "ok"
          ELSE IF found[t] = "inflight" /\ "loopThrew" \in n.note THEN "fail"
          ELSE found[t]]
    /\ since' = [t \in Tasks |->
          IF n.pc[t] # "waiting" \/ found[t] \notin {"ok", "fail"} THEN "no"
          ELSE IF "disturb" \in n.note \/ since[t] = "event" THEN "event"
          ELSE IF "newSeq" \in n.note \/ since[t] = "connect" THEN "connect"
          ELSE "no"]
    /\ lostPending' =
          IF n.note \cap {"loopOk", "closeCall", "reset"} # {} THEN FALSE
          ELSE IF "loss" \in n.note /\ IsConnectedIn(Cur) THEN TRUE
          ELSE lostPending

\* no message
NoMsg == [id |-> Null, queue |-> Null, text |-> "", hdr |-> <<>>]

\* a delivery the broker has not made
NoDelivery ==
    [phase |-> "none", via |-> Null, acks |-> 0, nacks |-> 0, ackAt |-> "none",
     outcome |-> "none", msg |-> NoMsg]

\* a message nothing was done with
NoRun ==
    [queue |-> Null, executed |-> 0, counters |-> <<>>, succeeded |-> FALSE,
     disturbed |-> FALSE]

\* no options given: every field of the options object is absent (<<>>); a
\* field that is given is <<value>>
NoOptions ==
    [exchange |-> <<>>, routingKey |-> <<>>, delay |-> <<>>,
     exchangeType |-> <<>>, headers |-> <<>>]

\* no call of a client method was made
NoCall ==
    [method |-> "none", k |-> Null, queue |-> <<>>, message |-> [n |-> 1],
     options |-> NoOptions, at |-> 0, log |-> <<>>, result |-> "none",
     error |-> "none"]

InLoop(t) == pc[t] \in {"amqpConnect", "createChannel", "backoff"}

Init ==
    /\ rabbitMQClient = Null
    /\ connectionUrl = ""
    /\ consumers = <<>>
    /\ isConnecting = FALSE
    /\ isReconnecting = FALSE
    /\ connection = Null
    /\ channel = [c \in ClientIds |-> Null]
    /\ isConnected = [c \in ClientIds |-> FALSE]
    /\ connectionLostCallback = [c \in ClientIds |-> FALSE]
    /\ alive = {}
    /\ closeHandler = [c \in ConnIds |-> Null]
    /\ subscribed = {}
    /\ deliveries = [d \in Deliveries |-> NoDelivery]
    /\ broker = [ready |-> <<>>, unacked |-> <<>>, dead |-> <<>>, produced |-> 0]
    /\ runs = [m \in Deliveries |-> NoRun]
    /\ call = NoCall
    /\ cachedClient = Null
    /\ pc = [t \in Tasks |-> "idle"]
    /\ retryOnFail = [t \in Tasks |-> TRUE]
    /\ self = [t \in Tasks |-> Null]
    /\ conn = [t \in Tasks |-> Null]
    /\ list = [t \in Tasks |-> <<>>]
    /\ idx = [t \in Tasks |-> 0]
    /\ inv = [t \in Tasks |-> <<>>]
    /\ threw = FALSE
    /\ caught = FALSE
    /\ event = NoEvent
    /\ found = [t \in Tasks |-> "none"]
    /\ since = [t \in Tasks |-> "no"]
    /\ lostPending = FALSE

\* ------------------------------------------------------ RabbitMQClient

\* constructor, and connect() up to its first await: amqp.connect when the class
\* holds no connection, createChannel on the class-level connection otherwise
clientConnectAnew(s, t, x) ==
    [s EXCEPT !.channel[x] = Null, !.isConnected[x] = FALSE,
              !.connectionLostCallback[x] = FALSE,
              !.self[t] = x,
              !.conn[t] = Null,
              !.pc[t] = "amqpConnect"]

clientConnect(s, t, x) ==
    [s EXCEPT !.channel[x] = Null, !.isConnected[x] = FALSE,
              !.connectionLostCallback[x] = FALSE,
              !.self[t] = x,
              !.conn[t] = s.connection,
              !.pc[t] = IF s.connection = Null THEN "amqpConnect"
                        ELSE "createChannel"]

\* connect() after amqp.connect resolved with connection c: the class-level
\* reference is set, the 'close' and 'error' handlers of this instance are
\* attached, createChannel is awaited
connectionOpened(s, t, c) ==
    [s EXCEPT !.connection = c,
              !.alive = @ \cup {c},
              !.closeHandler[c] = s.self[t],
              !.conn[t] = c,
              !.pc[t] = "createChannel"]

\* connect() after createChannel resolved
channelOpened(s, t) ==
    [s EXCEPT !.channel[s.self[t]] = s.conn[t],
              !.isConnected[s.self[t]] = TRUE]

\* a transport event is delivered on connection c, or on the channel of client
\* k: it concerns the manager's client when that client has its channel on the
\* connection or attached the handlers of the connection, or when the channel
\* is its channel
delivered(s, kind, c, k) ==
    LET m == s.rabbitMQClient
        concerned ==
            /\ m # Null
            /\ IF c # Null THEN s.channel[m] = c \/ s.closeHandler[c] = m
               ELSE k = m
    IN [s EXCEPT !.event = [kind |-> kind, k |-> IF concerned THEN m ELSE Null]]

\* the channel 'close' handler of client k
onChannelClose(s, k) == [s EXCEPT !.channel[k] = Null]

\* the channel 'error' handler of client k: it logs the error
onChannelError(s, k) == s

\* the connection 'error' handler attached by client o
onConnectionError(s, o) ==
    [s EXCEPT !.isConnected[o] = FALSE, !.channel[o] = Null]

\* the connection 'close' handler attached by client o, before its callback
onConnectionClose(s, o) ==
    [s EXCEPT !.isConnected[o] = FALSE, !.channel[o] = Null, !.connection = Null]

\* -------------------------------------------------- RabbitMQConnection

\* the invocation returns or throws (for handleConnectionLost: its finally)
taskExit(s, t, res) ==
    [s EXCEPT !.pc[t] = "idle", !.threw = (res = "threw"),
              !.retryOnFail[t] = TRUE, !.self[t] = Null,
              !.conn[t] = Null, !.list[t] = <<>>, !.idx[t] = 0, !.inv[t] = <<>>,
              !.isReconnecting = IF t \in LostTasks THEN FALSE ELSE @]

\* connect: one iteration of the loop up to its await
\* (the reference to the previous client is overwritten by the new one)
attempt(s, t) ==
    LET x == FreeClient([s EXCEPT !.rabbitMQClient = Null]) IN
    clientConnect([s EXCEPT !.rabbitMQClient = x], t, x)

\* a connect() without the guard of its first line
NeverWait(s) == FALSE

\* connect: a connect sequence is already in flight
MustWait(s) == s.isConnecting

\* a waiting caller that returns at its first poll, whatever the flag
WaitOverAtOnce(s) == TRUE

\* connect: the waiting caller's poll finds the sequence over
WaitOver(s) == ~s.isConnecting

\* connect: from the call to its first await (or its return)
connectEntry(s, t, url, retry) ==
    LET s0 == [s EXCEPT !.retryOnFail[t] = retry] IN
    IF MustWait(s0)
    THEN [s0 EXCEPT !.pc[t] = "waiting"]
    ELSE LET s1 == [s0 EXCEPT !.connectionUrl = url] IN
         IF IsConnectedIn(s1)
         THEN taskExit(s1, t, "returned")
         ELSE attempt(Note([s1 EXCEPT !.isConnecting = TRUE], {"newSeq"}), t)

\* a catch branch that rethrows whatever retryOnFail says
catchRethrows(s, t) ==
    taskExit(Note([s EXCEPT !.rabbitMQClient = Null, !.isConnecting = FALSE],
                  {"loopThrew"}), t, "threw")

\* a catch branch that backs off and retries whatever retryOnFail says
catchRetries(s, t) ==
    [s EXCEPT !.rabbitMQClient = Null, !.self[t] = Null, !.conn[t] = Null,
              !.pc[t] = "backoff"]

\* connect: the catch branch of the loop
catch(s, t) ==
    LET s1 == [s EXCEPT !.rabbitMQClient = Null, !.self[t] = Null,
                        !.conn[t] = Null] IN
    IF ~s.retryOnFail[t]
    THEN taskExit(Note([s1 EXCEPT !.isConnecting = FALSE], {"loopThrew"}), t, "threw")
    ELSE [s1 EXCEPT !.pc[t] = "backoff"]

\* Consumer.consume() up to its await: it subscribes through the shared client;
\* the call is pending on that client's channel, or already rejected (Null)
\* when there is no client or the client has no channel
consumeTarget(s) ==
    IF s.rabbitMQClient # Null /\ s.channel[s.rabbitMQClient] # Null
    THEN s.rabbitMQClient ELSE Null

\* startConsumers: the iteration for list[t][i], or the end of the loop
iterate(s, t, i) ==
    IF i <= Len(s.list[t])
    THEN [s EXCEPT !.pc[t] = "consume", !.idx[t] = i,
                   !.inv[t] = Append(@, s.list[t][i]),
                   !.self[t] = consumeTarget(s)]
    ELSE taskExit(s, t, "returned")

\* a startConsumers without its try/catch: the first failure ends the loop
consumedAbort(s, t, ok) ==
    IF ok
    THEN iterate([s EXCEPT !.subscribed = @ \cup {<<s.self[t], s.list[t][s.idx[t]]>>}],
                 t, s.idx[t] + 1)
    ELSE taskExit(s, t, "threw")

\* startConsumers: consume() of list[t][idx[t]] settled; a failure is caught
\* and logged, and the loop goes on
consumed(s, t, ok) ==
    iterate([s EXCEPT !.caught = ~ok,
                      !.subscribed = IF ok
                                     THEN @ \cup {<<s.self[t], s.list[t][s.idx[t]]>>}
                                     ELSE @],
            t, s.idx[t] + 1)

\* a connect() that ends after the loop without starting the consumers
afterLoopNoStart(s, t) ==
    taskExit(Note([s EXCEPT !.isConnecting = FALSE], {"loopOk"}), t, "returned")

\* connect after the loop
afterLoop(s, t) ==
    LET s1 == Note([s EXCEPT !.isConnecting = FALSE, !.self[t] = Null,
                             !.conn[t] = Null], {"loopOk"}) IN
    IF Len(s1.consumers) > 0
    THEN iterate([s1 EXCEPT !.list[t] = s1.consumers], t, 1)
    ELSE taskExit(s1, t, "returned")

\* connect: client.connect() resolved; onConnectionLost is called on the
\* manager's client reference as it is now (a TypeError when it is null)
connected(s, t) ==
    IF s.rabbitMQClient = Null
    THEN catch(s, t)
    ELSE afterLoop([s EXCEPT !.connectionLostCallback[s.rabbitMQClient] = TRUE], t)

\* a handleConnectionLost without the guard of its first line
KeepLoss(s) == FALSE

\* handleConnectionLost: a reconnection is already running
DropLoss(s) == s.isReconnecting

\* handleConnectionLost up to its first await, run by the idle invocation slot h
handleConnectionLost(s, h) ==
    IF DropLoss(s) \/ h \notin LostTasks
    THEN s
    ELSE LET s1 == [s EXCEPT !.isReconnecting = TRUE, !.rabbitMQClient = Null] IN
         IF MustWait(s1)
         THEN [s1 EXCEPT !.pc[h] = "waiting"]
         ELSE attempt(Note([s1 EXCEPT !.isConnecting = TRUE], {"newSeq"}), h)

\* reset()
\* a reset that also drops the class-level connection
resetAll(s) ==
    [s EXCEPT !.rabbitMQClient = Null, !.isConnecting = FALSE,
              !.connection = Null]

reset(s) == [s EXCEPT !.rabbitMQClient = Null, !.isConnecting = FALSE]

\* RabbitMQClient.close of client k, after its channel is closed: the class-level
\* connection is closed when there is one; then RabbitMQConnection.close clears
\* the client reference
closeConnection(s, t, k) ==
    IF s.connection # Null
    THEN [s EXCEPT !.pc[t] = "closeConn", !.self[t] = k, !.conn[t] = s.connection]
    ELSE taskExit([s EXCEPT !.isConnected[k] = FALSE, !.rabbitMQClient = Null],
                  t, "returned")

\* RabbitMQConnection.close up to its first await (or its end)
closeEntry(s, t) ==
    IF s.rabbitMQClient = Null
    THEN taskExit(s, t, "threw")
    ELSE IF s.channel[s.rabbitMQClient] # Null
         THEN [s EXCEPT !.pc[t] = "closeChannel", !.self[t] = s.rabbitMQClient]
         ELSE closeConnection(s, t, s.rabbitMQClient)

\* ------------------------------------------------------------ transport

IdleLost(s) ==
    IF \E h \in LostTasks : s.pc[h] = "idle"
    THEN CHOOSE h \in LostTasks : s.pc[h] = "idle"
    ELSE "none"

\* channels of connection c close with it (amqplib emits 'close' on a channel
\* also when its connection closes)
channelsClosed(s, c) ==
    [s EXCEPT !.channel = [k \in ClientIds |-> IF @[k] = c THEN Null ELSE @[k]]]

\* connection c closes: its channels close, its 'close' handler runs and calls
\* the callback registered on the client that attached the handler
connectionClosed(s, c) ==
    LET o == s.closeHandler[c]
        s1 == [channelsClosed(delivered(s, "connectionClose", c, Null), c) EXCEPT !.alive = @ \ {c},
                                           !.closeHandler[c] = Null]
        s2 == onConnectionClose(s1, o)
    IN IF s.connectionLostCallback[o]
       THEN handleConnectionLost(s2, IdleLost(s2))
       ELSE s2

\* close: channel.close() resolved (the channel emitted 'close')
channelCloseOk(s, t) ==
    closeConnection(onChannelClose(delivered(s, "channelClose", Null, s.self[t]),
                                   s.self[t]), t, s.self[t])

\* close: connection.close() resolved (the connection emitted 'close')
connectionCloseOk(s, t) ==
    LET k == s.self[t]
        s1 == connectionClosed(s, s.conn[t])
    IN taskExit([s1 EXCEPT !.connection = Null, !.isConnected[k] = FALSE,
                           !.rabbitMQClient = Null], t, "returned")

\* ------------------------------------- RabbitMQClient: acknowledgments

\* an ack() that calls channel.ack whether or not the client has a channel
ackUnguarded(s, k, d) == [s EXCEPT !.deliveries[d].acks = @ + 1]

\* ack(message) on client k: channel.ack when there is a message and a channel
ack(s, k, d) ==
    IF d # Null /\ channelOf(s, k) # Null
    THEN [s EXCEPT !.deliveries[d].acks = @ + 1]
    ELSE s

\* nack(message) on client k: channel.nack when there is a message and a channel
nack(s, k, d) ==
    IF d # Null /\ channelOf(s, k) # Null
    THEN [s EXCEPT !.deliveries[d].nacks = @ + 1]
    ELSE s

\* sendToQueue on client k throws at once when the client has no channel
canSend(s, k) == channelOf(s, k) # Null

\* JSON.parse of a message body
parse(text) ==
    IF text \in {"{\"n\":1}", "{ \"n\": 1 }"} THEN [n |-> 1] ELSE [n |-> 2]

\* a serialisation that writes the same bytes for every payload
stringifyConst(v) == "{\"n\":1}"

\* JSON.stringify of a payload (Buffer.from(JSON.stringify(message)))
stringify(v) == IF v.n = 1 THEN "{\"n\":1}" ELSE "{\"n\":2}"

\* ------------------------------------- RabbitMQClient: transport methods
\* A name is a sequence of string parts, so that `Exchange_${queue}` and
\* `${exchange}-delayed` are concatenations.  A headers object is a function
\* from header names to values.  A method is modelled by the transport
\* operations it performs on its channel, in order.

\* one operation on the channel
Op(op, name, queue, key, type, durable, headers, content) ==
    [op |-> op, name |-> name, queue |-> queue, key |-> key, type |-> type,
     durable |-> durable, headers |-> headers, content |-> content]

defaultOptions(queue) ==
    [exchange |-> <<"Exchange_">> \o queue, routingKey |-> queue, delay |-> 0,
     exchangeType |-> "direct", headers |-> <<>>]

\* { ...defaultOptions, ...options }
mergedOptions(queue, options) ==
    LET d == defaultOptions(queue) IN
    [exchange |-> IF options.exchange = <<>> THEN d.exchange
                  ELSE options.exchange[1],
     routingKey |-> IF options.routingKey = <<>> THEN d.routingKey
                    ELSE options.routingKey[1],
     delay |-> IF options.delay = <<>> THEN d.delay ELSE options.delay[1],
     exchangeType |-> IF options.exchangeType = <<>> THEN d.exchangeType
                      ELSE options.exchangeType[1],
     headers |-> IF options.headers = <<>> THEN d.headers
                 ELSE options.headers[1]]

assertExchange(m) ==
    Op("assertExchange", m.exchange \o <<"-delayed">>, <<>>, <<>>,
       <<"x-delayed-message", m.exchangeType>>, TRUE, <<>>, "")

assertQueue(queue) == Op("assertQueue", <<>>, queue, <<>>, <<>>, TRUE, <<>>, "")

bindQueue(queue, m) ==
    Op("bindQueue", m.exchange \o <<"-delayed">>, queue, m.routingKey, <<>>,
       FALSE, <<>>, "")

channelPublish(m, headers, message) ==
    Op("publish", m.exchange \o <<"-delayed">>, <<>>, m.routingKey, <<>>, FALSE,
       headers, stringify(message))

\* a publish that takes the delayed exchange only for a delay above 0
publishIfDelayed(queue, message, options) ==
    LET m == mergedOptions(queue, options) IN
    IF m.delay > 0
    THEN << assertExchange(m),
            assertQueue(queue),
            bindQueue(queue, m),
            channelPublish(m, ("x-delay" :> m.delay) @@ m.headers, message) >>
    ELSE << assertQueue(queue),
            Op("sendToQueue", <<>>, queue, <<>>, <<>>, FALSE, m.headers,
               stringify(message)) >>

\* publish(queue, message, options) after its guard
publish(queue, message, options) ==
    LET m == mergedOptions(queue, options) IN
    << assertExchange(m),
       assertQueue(queue),
       bindQueue(queue, m),
       channelPublish(m, ("x-delay" :> m.delay) @@ m.headers, message) >>

\* sendToQueue(queue, message, options) after its guard
sendToQueue(queue, message, options) ==
    LET m == mergedOptions(queue, options)
        headers == "x-delay" :> m.delay
        mergedHeader == IF options.headers # <<>>
                        THEN headers @@ options.headers[1]
                        ELSE headers
    IN <<assertQueue(queue)>> \o
       IF m.delay > 0
       THEN << assertExchange(m),
               bindQueue(queue, m),
               channelPublish(m, mergedHeader, message) >>
       ELSE << Op("sendToQueue", <<>>, queue, <<>>, <<>>, FALSE,
                  IF options.headers = <<>> THEN <<>> ELSE options.headers[1],
                  stringify(message)) >>

\* consume(queue, callback) after its guard
consume(queue) ==
    << assertQueue(queue),
       Op("consume", <<>>, queue, <<>>, <<"noAck", FALSE>>, FALSE, <<>>, "") >>

\* getConsumerCount(queue) after its guard
getConsumerCount(queue) == << assertQueue(queue) >>

\* the operations of call c
Plan(c) ==
    CASE c.method = "publish" -> publish(c.queue, c.message, c.options)
      [] c.method = "sendToQueue" -> sendToQueue(c.queue, c.message, c.options)
      [] c.method = "consume" -> consume(c.queue)
      [] OTHER -> getConsumerCount(c.queue)

\* the call ends
settled(s, result, error) ==
    [s EXCEPT !.call.result = result, !.call.error = error, !.call.k = Null,
              !.threw = (result = "threw")]

\* a catch that only rethrows
catchOnlyRethrows(s, error) == settled(s, "threw", error)

\* the catch of publish and of sendToQueue: an error whose message says that
\* the channel or the connection is closed clears the connected state; the
\* catch of consume and of getConsumerCount only rethrows
catchSend(s, error) ==
    IF s.call.method \in {"publish", "sendToQueue"}
       /\ error \in {"Channel closed", "Connection closed"}
    THEN settled([s EXCEPT !.isConnected[s.call.k] = FALSE,
                           !.channel[s.call.k] = Null], "threw", error)
    ELSE settled(s, "threw", error)

\* the call performs its next operation on this.channel: a method of null
\* cannot be called; channel.publish and channel.sendToQueue do not wait for
\* the broker
perform(s) ==
    LET c == s.call
        next == Plan(c)[c.at + 1]
        did == [s EXCEPT !.call.at = @ + 1, !.call.log = Append(@, next)]
    IN IF s.channel[c.k] = Null THEN catchSend(s, "TypeError")
       ELSE IF next.op \in {"publish", "sendToQueue"}
            THEN settled(did, "returned", "none")
            ELSE did

\* a method without the guard of its first line
invokeUnguarded(s, method, k, queue, message, options) ==
    perform([s EXCEPT !.call = [NoCall EXCEPT !.method = method, !.k = k,
                                              !.queue = queue,
                                              !.message = message,
                                              !.options = options,
                                              !.result = "pending"]])

\* a method of client k is called: without a channel it throws at once
invoke(s, method, k, queue, message, options) ==
    LET c == [NoCall EXCEPT !.method = method, !.k = k, !.queue = queue,
                            !.message = message, !.options = options,
                            !.result = "pending"]
    IN IF s.channel[k] = Null
       THEN settled([s EXCEPT !.call = c], "threw", "unavailable")
       ELSE perform([s EXCEPT !.call = c])

\* the operation the call waits for is done
resolved(s) ==
    IF s.call.at = Len(Plan(s.call)) THEN settled(s, "returned", "none")
    ELSE perform(s)

\* ------------------------------------------------------------ Publisher

\* the getter rabbitMQClient of a Publisher: RabbitMQConnection.getClient() at
\* the first use, the cached client afterwards (getClient throws while the
\* manager has no client, and nothing is cached then)
getCachedClient(s) ==
    IF s.cachedClient = Null
    THEN [s EXCEPT !.cachedClient = s.rabbitMQClient]
    ELSE s

\* publish(message) of a Publisher subclass: a method of the client the getter
\* returns is called with the queue of the publisher
publisherPublish(s, method, queue, message, options) ==
    LET g == getCachedClient(s) IN
    IF g.cachedClient = Null
    THEN settled([g EXCEPT !.call = [NoCall EXCEPT !.method = method,
                                                   !.queue = queue,
                                                   !.message = message,
                                                   !.options = options]],
                 "threw", "not initialized")
    ELSE invoke(g, method, g.cachedClient, queue, message, options)

\* ------------------------------------------------------------- Consumer
\* (handling of one delivery by the callback that consume() subscribed)

\* the retry-attempt counter read from the delivery headers, 0 when absent
readCounter(hdr) == IF hdr = <<>> THEN 0 ELSE hdr[1]

\* the retry option consumer c was constructed with: the consumers with an odd
\* number retry (the default), the others do not
retryOf(c) == c % 2 = 1

\* the callback is called on the channel of client k with the message at the
\* head of the queue: it parses the body and calls execute
onMessage(s, d, k) ==
    LET m == Head(s.broker.ready) IN
    [s EXCEPT !.deliveries[d] = [NoDelivery EXCEPT !.phase = "executing",
                                                   !.via = k, !.msg = m],
              !.broker.ready = Tail(@),
              !.runs[m.id] = [@ EXCEPT !.queue = m.queue, !.executed = @ + 1]]

\* the handler ends; a delivery it did not acknowledge stays unacknowledged on
\* its channel
handled(s, d, result) ==
    [s EXCEPT !.deliveries[d].phase = "done", !.deliveries[d].outcome = result,
              !.deliveries[d].via = Null,
              !.broker.unacked =
                  IF result = "aborted" /\ s.deliveries[d].via # Null
                  THEN Append(@, [via |-> s.deliveries[d].via,
                                  msg |-> s.deliveries[d].msg])
                  ELSE @,
              !.runs[s.deliveries[d].msg.id] =
                  [@ EXCEPT !.succeeded = @ \/ result = "success",
                            !.disturbed = @ \/ result = "aborted"]]

\* the last step of the handler: it acknowledges the delivery
acknowledge(s, d, result) ==
    LET k == s.deliveries[d].via
        at == IF channelOf(s, k) # Null THEN "open" ELSE "closed"
    IN handled([ack(s, k, d) EXCEPT !.deliveries[d].ackAt = at], d, result)

\* a policy that redelivers whatever the counter is
routeUnbounded(retry, counter) == IF ~retry THEN "deadLetter" ELSE "redeliver"

\* where a failed message goes: the retry-attempt counter of its headers
\* against the retry policy
route(retry, counter) ==
    IF ~retry \/ counter >= RetryCount THEN "deadLetter" ELSE "redeliver"

\* execute failed: the message is published to the error queue or again to its
\* queue; the publish throws at once on a client without a channel
executeFailed(s, d) ==
    LET m == s.deliveries[d].msg IN
    IF canSend(s, s.deliveries[d].via)
    THEN [s EXCEPT !.deliveries[d].phase =
                       route(retryOf(m.queue), readCounter(m.hdr))]
    ELSE handled(s, d, "aborted")

\* the publish of the failed message went through: it is in the queue again
\* with its counter incremented, or in the error queue as it was
published(s, d) ==
    LET m == s.deliveries[d].msg
        c == readCounter(m.hdr)
        body == stringify(parse(m.text))
    IN IF s.deliveries[d].phase = "redeliver"
       THEN [s EXCEPT !.broker.ready = Append(@, [m EXCEPT !.text = body,
                                                          !.hdr = <<c + 1>>]),
                      !.runs[m.id].counters = Append(@, c + 1)]
       ELSE [s EXCEPT !.broker.dead = Append(@, [m EXCEPT !.text = body])]

\* ---------------------------------------------------------------- actions

\* the application registers its consumers once, before it connects
RegisterConsumers(l) ==
    /\ consumers = <<>> /\ connectionUrl = ""
    /\ Set([Cur EXCEPT !.consumers = l])

Connect(t, url, retry) ==
    /\ pc[t] = "idle"
    /\ Set(connectEntry(Cur, t, url, retry))

\* a poll of the waiting caller that finds isConnecting false
PollWait(t) ==
    /\ pc[t] = "waiting"
    /\ WaitOver(Cur)
    /\ Set(taskExit(Cur, t, "returned"))

AmqpConnectOk(t) ==
    /\ pc[t] = "amqpConnect"
    /\ FreeConn(Cur) \in ConnIds
    /\ Set(connectionOpened(Cur, t, FreeConn(Cur)))

AmqpConnectFail(t) ==
    /\ pc[t] = "amqpConnect"
    /\ Set(catch(Cur, t))

CreateChannelOk(t) ==
    /\ pc[t] = "createChannel"
    /\ conn[t] \in alive
    /\ Set(connected(channelOpened(Cur, t), t))

CreateChannelFail(t) ==
    /\ pc[t] = "createChannel"
    /\ Set(catch(Cur, t))

\* the 5000 ms of the backoff elapsed
Backoff(t) ==
    /\ pc[t] = "backoff"
    /\ Set(attempt(Cur, t))

ConsumeOk(t) ==
    /\ pc[t] = "consume"
    /\ self[t] # Null
    /\ channel[self[t]] # Null
    /\ Set(consumed(Cur, t, TRUE))

ConsumeFail(t) ==
    /\ pc[t] = "consume"
    /\ Set(consumed(Cur, t, FALSE))

\* the broker or the network closes connection c
ConnectionClosed(c) ==
    /\ c \in alive
    /\ Set(Note(connectionClosed(Cur, c), {"loss", "disturb"}))

\* the broker closes the channel of client k
ChannelClosed(k) ==
    /\ channel[k] # Null
    /\ Set(Note(onChannelClose(delivered(Cur, "channelClose", Null, k), k),
                {"disturb"}))

\* connection c emits 'error'
ConnectionError(c) ==
    /\ c \in alive
    /\ Set(Note(onConnectionError(delivered(Cur, "connectionError", c, Null),
                                  closeHandler[c]), {"disturb"}))

\* the channel of client k emits 'error'
ChannelError(k) ==
    /\ channel[k] # Null
    /\ Set(Note(onChannelError(delivered(Cur, "channelError", Null, k), k),
                {"disturb"}))

Close(t) ==
    /\ pc[t] = "idle"
    /\ Set(Note(closeEntry(Cur, t), {"closeCall", "disturb"}))

ChannelCloseOk(t) ==
    /\ pc[t] = "closeChannel"
    /\ channel[self[t]] # Null
    /\ Set(Note(channelCloseOk(Cur, t), {"disturb"}))

ChannelCloseFail(t) ==
    /\ pc[t] = "closeChannel"
    /\ Set(Note(taskExit(Cur, t, "threw"), {"disturb"}))

ConnectionCloseOk(t) ==
    /\ pc[t] = "closeConn"
    /\ conn[t] \in alive
    /\ Set(Note(connectionCloseOk(Cur, t), {"disturb"}))

ConnectionCloseFail(t) ==
    /\ pc[t] = "closeConn"
    /\ Set(Note(taskExit(Cur, t, "threw"), {"disturb"}))

Reset ==
    \E s \in {reset(Cur)} : Set(Note(s, {"reset", "disturb"}))

\* the application calls a method of the client it got from getClient()
Invoke(method, queue, message, options) ==
    /\ call.result # "pending"
    /\ rabbitMQClient # Null
    /\ Set(invoke(Cur, method, rabbitMQClient, queue, message, options))

\* the application publishes through its Publisher
PublisherPublish(method, queue, message, options) ==
    /\ call.result # "pending"
    /\ Set(publisherPublish(Cur, method, queue, message, options))

\* the operation the call waits for succeeds
OpOk ==
    /\ call.result = "pending"
    /\ channel[call.k] # Null
    /\ Set(resolved(Cur))

\* the operation the call waits for fails with an error of this message
OpFail(error) ==
    /\ call.result = "pending"
    /\ Set(catchSend(Cur, error))

\* a producer puts a message in the queue of consumer q
Produce(q, text, hdr) ==
    /\ broker.produced < MaxDeliveries
    /\ Set([Cur EXCEPT !.broker.produced = @ + 1,
                       !.broker.ready = Append(@, [id |-> broker.produced + 1,
                                                   queue |-> q, text |-> text,
                                                   hdr |-> hdr])])

\* the broker delivers the message at the head of the queue to the consumer
\* subscribed to it
Deliver(d, k) ==
    /\ deliveries[d].phase \in {"none", "done"}
    /\ \A e \in Deliveries : e < d => deliveries[e].phase \notin {"none", "done"}
    /\ broker.ready # <<>>
    /\ <<k, Head(broker.ready).queue>> \in subscribed
    /\ runs[Head(broker.ready).id].executed < MaxExecuted
    /\ Set(onMessage(Cur, d, k))

ExecuteOk(d) ==
    /\ deliveries[d].phase = "executing"
    /\ Set(acknowledge(Cur, d, "success"))

ExecuteFail(d) ==
    /\ deliveries[d].phase = "executing"
    /\ Set(executeFailed(Cur, d))

\* the publish of the failed message settled
SendOk(d) ==
    /\ deliveries[d].phase \in {"deadLetter", "redeliver"}
    /\ canSend(Cur, deliveries[d].via)
    /\ Set(acknowledge(published(Cur, d), d,
                       IF deliveries[d].phase = "deadLetter"
                       THEN "deadLettered" ELSE "redelivered"))

SendFail(d) ==
    /\ deliveries[d].phase \in {"deadLetter", "redeliver"}
    /\ Set(handled(Cur, d, "aborted"))

\* connect, reconnection and what the transport does
NextCore ==
    \/ \E l \in ConsumerLists : RegisterConsumers(l)
    \/ \E t \in AppTasks, u \in Urls, r \in BOOLEAN : Connect(t, u, r)
    \/ \E t \in Tasks : PollWait(t)
    \/ \E t \in Tasks : AmqpConnectOk(t)
    \/ \E t \in Tasks : AmqpConnectFail(t)
    \/ \E t \in Tasks : CreateChannelOk(t)
    \/ \E t \in Tasks : CreateChannelFail(t)
    \/ \E t \in Tasks : Backoff(t)
    \/ \E t \in Tasks : ConsumeOk(t)
    \/ \E t \in Tasks : ConsumeFail(t)
    \/ \E c \in ConnIds : ConnectionClosed(c)
    \/ \E k \in ClientIds : ChannelClosed(k)

\* RabbitMQConnection.close()
NextClose ==
    \/ \E t \in AppTasks : Close(t)
    \/ \E t \in AppTasks : ChannelCloseOk(t)
    \/ \E t \in AppTasks : ChannelCloseFail(t)
    \/ \E t \in AppTasks : ConnectionCloseOk(t)
    \/ \E t \in AppTasks : ConnectionCloseFail(t)

Next == NextCore \/ NextClose \/ Reset

\* the consumers at work: connection, subscription, losses and deliveries
NextDelivery ==
    \/ \E l \in ConsumerLists : RegisterConsumers(l)
    \/ Connect("a1", "u1", TRUE)
    \/ \E t \in Tasks : PollWait(t)
    \/ \E t \in Tasks : AmqpConnectOk(t)
    \/ \E t \in Tasks : CreateChannelOk(t)
    \/ \E t \in Tasks : ConsumeOk(t)
    \/ \E t \in Tasks : ConsumeFail(t)
    \/ \E c \in ConnIds : ConnectionClosed(c)
    \/ \E k \in ClientIds : ChannelClosed(k)
    \/ \E q \in ConsumerIds, x \in Texts : Produce(q, x, <<>>)
    \/ \E d \in Deliveries, k \in ClientIds : Deliver(d, k)
    \/ \E d \in Deliveries : ExecuteOk(d)
    \/ \E d \in Deliveries : ExecuteFail(d)
    \/ \E d \in Deliveries : SendOk(d)
    \/ \E d \in Deliveries : SendFail(d)

\* the life cycle of the connection: one caller connects, another closes
NextLife ==
    \/ \E l \in ConsumerLists : RegisterConsumers(l)
    \/ \E r \in BOOLEAN : Connect("a1", "u1", r)
    \/ \E t \in Tasks : PollWait(t)
    \/ \E t \in Tasks : AmqpConnectOk(t)
    \/ \E t \in Tasks : AmqpConnectFail(t)
    \/ \E t \in Tasks : CreateChannelOk(t)
    \/ \E t \in Tasks : CreateChannelFail(t)
    \/ \E t \in Tasks : Backoff(t)
    \/ \E t \in Tasks : ConsumeOk(t)
    \/ \E t \in Tasks : ConsumeFail(t)
    \/ \E c \in ConnIds : ConnectionClosed(c)
    \/ \E k \in ClientIds : ChannelClosed(k)
    \/ Close("a2")
    \/ ChannelCloseOk("a2")
    \/ ChannelCloseFail("a2")
    \/ ConnectionCloseOk("a2")
    \/ ConnectionCloseFail("a2")

\* connect, loss and reconnection with the administrative reset
NextReset ==
    \/ \E l \in ConsumerLists : RegisterConsumers(l)
    \/ Connect("a1", "u1", TRUE)
    \/ \E t \in Tasks : PollWait(t)
    \/ \E t \in Tasks : AmqpConnectOk(t)
    \/ \E t \in Tasks : CreateChannelOk(t)
    \/ \E t \in Tasks : Backoff(t)
    \/ \E t \in Tasks : ConsumeOk(t)
    \/ \E c \in ConnIds : ConnectionClosed(c)
    \/ Reset

\* the application uses the client of a connected manager
NextSend ==
    \/ Connect("a1", "u1", TRUE)
    \/ \E t \in Tasks : PollWait(t)
    \/ \E t \in Tasks : AmqpConnectOk(t)
    \/ \E t \in Tasks : CreateChannelOk(t)
    \/ \E c \in ConnIds : ConnectionClosed(c)
    \/ \E k \in ClientIds : ChannelClosed(k)
    \/ \E m \in {"publish", "sendToQueue"}, q \in QueueNames, x \in Payloads,
          o \in OptionsGiven \cup {NoOptions} : Invoke(m, q, x, o)
    \/ \E m \in {"consume", "getConsumerCount"}, q \in QueueNames, x \in Payloads :
           Invoke(m, q, x, NoOptions)
    \/ OpOk
    \/ \E e \in ErrorMessages : OpFail(e)

\* a Publisher of the application at work while the manager connects, loses
\* its connection and reconnects
NextPublisher ==
    \/ Connect("a1", "u1", TRUE)
    \/ \E t \in Tasks : PollWait(t)
    \/ \E t \in Tasks : AmqpConnectOk(t)
    \/ \E t \in Tasks : CreateChannelOk(t)
    \/ \E c \in ConnIds : ConnectionClosed(c)
    \/ \E m \in {"publish", "sendToQueue"}, q \in QueueNames, x \in Payloads :
           PublisherPublish(m, q, x, NoOptions)
    \/ OpOk
    \/ \E e \in ErrorMessages : OpFail(e)

\* connect and reconnection under the events of the transport
NextEvents ==
    \/ \E r \in BOOLEAN : Connect("a1", "u1", r)
    \/ \E t \in Tasks : PollWait(t)
    \/ \E t \in Tasks : AmqpConnectOk(t)
    \/ \E t \in Tasks : CreateChannelOk(t)
    \/ \E t \in Tasks : CreateChannelFail(t)
    \/ \E t \in Tasks : Backoff(t)
    \/ \E c \in ConnIds : ConnectionClosed(c)
    \/ \E c \in ConnIds : ConnectionError(c)
    \/ \E k \in ClientIds : ChannelClosed(k)
    \/ \E k \in ClientIds : ChannelError(k)

Spec == Init /\ [][Next]_vars
SpecEvents == Init /\ [][NextEvents]_vars
SpecPublisher == Init /\ [][NextPublisher]_vars
SpecSend == Init /\ [][NextSend]_vars
SpecLife == Init /\ [][NextLife]_vars
SpecReset == Init /\ [][NextReset]_vars
SpecDelivery == Init /\ [][NextDelivery]_vars
SpecCore == Init /\ [][NextCore]_vars

\* a step of the invocation that is inside the connect loop: its pending call
\* settles or its backoff timer fires
LoopStep(t) ==
    \/ AmqpConnectOk(t) \/ AmqpConnectFail(t)
    \/ CreateChannelOk(t) \/ CreateChannelFail(t)
    \/ Backoff(t)

\* SpecCore with a scheduler that fires every timer and settles every pending
\* call, and a broker that does not refuse for ever: what is attempted again
\* and again is accepted at some time
\* connect by one caller, reconnection and the transport
NextRetry ==
    \/ \E l \in ConsumerLists : RegisterConsumers(l)
    \/ \E r \in BOOLEAN : Connect("a1", "u1", r)
    \/ \E t \in Tasks : PollWait(t)
    \/ \E t \in Tasks : AmqpConnectOk(t)
    \/ \E t \in Tasks : AmqpConnectFail(t)
    \/ \E t \in Tasks : CreateChannelOk(t)
    \/ \E t \in Tasks : CreateChannelFail(t)
    \/ \E t \in Tasks : Backoff(t)
    \/ \E t \in Tasks : ConsumeOk(t)
    \/ \E t \in Tasks : ConsumeFail(t)
    \/ \E c \in ConnIds : ConnectionClosed(c)
    \/ \E k \in ClientIds : ChannelClosed(k)

FairCore ==
    /\ Init /\ [][NextRetry]_vars
    /\ WF_vars(\E t \in Tasks : LoopStep(t))
    /\ SF_vars(\E t \in Tasks : AmqpConnectOk(t))
    /\ SF_vars(\E t \in Tasks : CreateChannelOk(t))
    /\ \A t \in Tasks : /\ WF_vars(PollWait(t))
                        /\ WF_vars(ConsumeOk(t) \/ ConsumeFail(t))

\* ------------------------------------------------------------- properties

\* invocation t ends in this step by an exception / by a return
Throws(t) == pc[t] # "idle" /\ pc'[t] = "idle" /\ threw'
Returns(t) == pc[t] # "idle" /\ pc'[t] = "idle" /\ ~threw'

\* the connection the manager's client runs on closes in this step
ManagerLoss ==
    /\ rabbitMQClient # Null
    /\ channel[rabbitMQClient] # Null
    /\ channel[rabbitMQClient] \notin alive'

\* C1: whatever the interleaving of connect() calls and loss notifications, at
\* most one invocation is inside the connect loop; an invocation that found
\* isConnecting true holds no client and no pending attempt, the only thing it
\* ever does is return, and it returns only from a state in which isConnecting
\* is false and no invocation is inside the loop.
C1_SingleConnectSequence ==
    /\ [](Cardinality({t \in Tasks : InLoop(t)}) <= 1)
    /\ []((\E t \in Tasks : InLoop(t)) <=> isConnecting)
    /\ [](\A t \in Tasks : pc[t] = "waiting" => self[t] = Null /\ conn[t] = Null)
    /\ [][\A t \in Tasks : pc[t] = "waiting" /\ pc'[t] # "waiting" =>
             /\ Returns(t)
             /\ ~isConnecting
             /\ \A u \in Tasks : ~InLoop(u)
             /\ UNCHANGED <<rabbitMQClient, clientVars, netVars>>]_vars

\* a caller waits while another invocation, after a failed attempt, is in the
\* backoff of the loop
C1_Witness ==
    \E t, u \in Tasks : pc[t] = "backoff" /\ pc[u] = "waiting"

C3_ReconnectsAfterLoss == lostPending ~> IsConnected

\* what C3 excludes in every state: the manager lost its connection, is not
\* connected, and no invocation is left that could reconnect it
NoStrandedLoss ==
    ~(lostPending /\ ~IsConnected /\ \A t \in Tasks : pc[t] = "idle")

\* C4: a loss notification that arrives while isReconnecting is true changes
\* no state of the manager; at most one reconnection is in progress; and
\* isReconnecting is true exactly while one is.
C4_LossesCollapse ==
    /\ [][isReconnecting /\ alive' # alive /\ alive' \subseteq alive =>
             UNCHANGED <<mgrVars, pc>>]_vars
    /\ [](Cardinality({h \in LostTasks : pc[h] # "idle"}) <= 1)
    /\ [](isReconnecting <=> \E h \in LostTasks : pc[h] # "idle")

\* the reconnection succeeded, is starting the consumers, and the new
\* connection was lost meanwhile: the notification found isReconnecting true
C4_Witness ==
    /\ isReconnecting
    /\ lostPending
    /\ \E h \in LostTasks : pc[h] = "consume"

\* C5: connect(url, true) never throws a connection failure: a failed attempt
\* discards the client and leads to the backoff, the backoff leads to an
\* attempt by a new client, the loop is left only with the manager connected
\* and isConnecting false, and with a broker that accepts in the end the loop
\* is left.
C5_RetryUntilConnected ==
    /\ [][\A t \in Tasks : retryOnFail[t] /\ InLoop(t) =>
             /\ ~Throws(t)
             /\ pc[t] # "backoff" /\ pc'[t] = "backoff" => rabbitMQClient' = Null
             /\ pc[t] = "backoff" /\ pc'[t] # "backoff" =>
                    /\ pc'[t] \in {"amqpConnect", "createChannel"}
                    /\ rabbitMQClient' # Null
                    /\ self'[t] = rabbitMQClient'
                    /\ ~IsConnected'
             /\ ~InLoop(t)' => IsConnected' /\ ~isConnecting']_vars
    /\ (\E t \in Tasks : InLoop(t) /\ retryOnFail[t]) ~> (\A t \in Tasks : ~InLoop(t))

\* connect(url, true) is in its backoff after a failed attempt
C5_Witness ==
    \E t \in AppTasks : pc[t] = "backoff" /\ retryOnFail[t] /\ rabbitMQClient = Null

\* C6: connect(url, false) makes one attempt: it never reaches the backoff;
\* it leaves the loop either connected or by throwing; and the throw leaves
\* the client reference null, isConnecting false, isConnected() false, with no
\* consumer started by this call.
C6_FailFast ==
    [][\A t \in Tasks : InLoop(t) /\ ~retryOnFail[t] =>
          /\ pc'[t] # "backoff"
          /\ Returns(t) \/ pc'[t] = "consume" => IsConnected'
          /\ Throws(t) => /\ rabbitMQClient' = Null
                          /\ ~isConnecting'
                          /\ ~IsConnected'
                          /\ inv[t] = <<>> /\ inv'[t] = <<>>
                          /\ pc'[t] = "idle"]_vars

\* connect(url, false) has just thrown
C6_Witness ==
    /\ threw
    /\ rabbitMQClient = Null
    /\ ~isConnecting
    /\ ~IsConnected
    /\ \A t \in Tasks : pc[t] = "idle"

\* an application caller calls connect() in this step
ConnectCall == \E t \in AppTasks, u \in Urls, r \in BOOLEAN : Connect(t, u, r)

\* C7: connect() called while isConnected() is true and no connect is in
\* flight returns at once and changes nothing: no field of the manager
\* (client, connection URL, consumers, the two flags), no client, no
\* connection, no position of any invocation.
C7_ConnectedConnectIsNoOp ==
    [][IsConnected /\ ~isConnecting /\ ConnectCall =>
          UNCHANGED <<mgrVars, clientVars, netVars, pc, self, conn, list, idx, inv>>]_vars

\* what does hold of that call: everything but the connection URL is unchanged
ConnectedConnectKeepsAllButUrl ==
    [][IsConnected /\ ~isConnecting /\ ConnectCall =>
          UNCHANGED <<rabbitMQClient, consumers, isConnecting, isReconnecting,
                      clientVars, netVars, pc, self, conn, list, idx, inv>>]_vars

\* C8: startConsumers calls consume() on the registered consumers one by one
\* in registration order, a failed consume() included: it is entered whenever
\* a connect loop succeeds with consumers registered, each settled call is
\* followed by the call for the next entry or by the end of the loop, the loop
\* ends only when every entry has been called once, and it ends by a return.
C8_StartsEveryConsumerOnce ==
    /\ [][\A t \in Tasks :
             /\ pc[t] = "createChannel" /\ Returns(t) => consumers = <<>>
             /\ pc[t] = "createChannel" /\ pc'[t] = "consume" =>
                    /\ list'[t] = consumers
                    /\ idx'[t] = 1
                    /\ inv'[t] = <<consumers[1]>>
             /\ pc[t] = "consume" /\ pc'[t] = "consume" /\ idx'[t] # idx[t] =>
                    /\ idx'[t] = idx[t] + 1
                    /\ list'[t] = list[t]
                    /\ inv'[t] = Append(inv[t], list[t][idx'[t]])
             /\ pc[t] = "consume" /\ pc'[t] # "consume" =>
                    /\ Returns(t)
                    /\ inv[t] = list[t]
                    /\ idx[t] = Len(list[t])]_vars
    /\ [][caught' => \E t \in Tasks :
             /\ pc[t] = "consume"
             /\ IF idx[t] < Len(list[t])
                THEN pc'[t] = "consume" /\ idx'[t] = idx[t] + 1
                ELSE Returns(t)]_vars
    /\ [](\A t \in Tasks : pc[t] = "consume" =>
             /\ idx[t] \in 1..Len(list[t])
             /\ inv[t] = SubSeq(list[t], 1, idx[t]))

\* consume() of the first consumer has just failed and consume() of the second
\* has been called
C8_Witness ==
    \E t \in AppTasks :
        /\ caught
        /\ pc[t] = "consume"
        /\ idx[t] = 2
        /\ inv[t] = SubSeq(consumers, 1, 2)

\* C9: a caller that waited returns only after the sequence it found in flight
\* has ended, and, unless a connection or a channel was lost or a further
\* connect() started a new sequence since, isConnected() is then true if that
\* sequence succeeded and false if it threw.
C9_WaiterSeesOutcome ==
    [][\A t \in Tasks : pc[t] = "waiting" /\ pc'[t] # "waiting" =>
          /\ found[t] \in {"ok", "fail"}
          /\ since[t] = "no" /\ found[t] = "ok" => IsConnected'
          /\ since[t] = "no" /\ found[t] = "fail" => ~IsConnected']_vars

\* C9 as stated: only a connection loss (or close() or reset()) is excepted
C9_AsStated ==
    [][\A t \in Tasks : pc[t] = "waiting" /\ pc'[t] # "waiting" =>
          /\ since[t] # "event" /\ found[t] = "ok" => IsConnected'
          /\ since[t] # "event" /\ found[t] = "fail" => ~IsConnected']_vars

\* a caller is about to return from its wait after the sequence it found in
\* flight threw, nothing having happened since
C9_Witness ==
    \E t \in AppTasks :
        /\ pc[t] = "waiting"
        /\ found[t] = "fail"
        /\ since[t] = "no"
        /\ ~isConnecting

\* C10: a delivery is never negatively acknowledged and never acknowledged
\* twice; the acknowledgment is the last step of its handler; and a handler
\* that reaches it - after a successful execute, after the redelivery publish,
\* after the dead-letter publish - acknowledges the delivery once when its
\* client still has the channel, and not at all when the channel is gone.
C10_AckAtMostOnceNeverNack ==
    \A d \in Deliveries :
        /\ deliveries[d].nacks = 0
        /\ deliveries[d].acks <= 1
        /\ deliveries[d].phase # "done" => deliveries[d].acks = 0
        /\ deliveries[d].outcome = "aborted" => deliveries[d].acks = 0
        /\ deliveries[d].outcome \in {"success", "redelivered", "deadLettered"} =>
               deliveries[d].acks = IF deliveries[d].ackAt = "open" THEN 1 ELSE 0

\* C10 as stated: every handled delivery is acknowledged exactly once
C10_AsStated ==
    \A d \in Deliveries :
        /\ deliveries[d].nacks = 0
        /\ deliveries[d].outcome \in {"success", "redelivered", "deadLettered"} =>
               deliveries[d].acks = 1

\* execute failed, the message was published again to its queue and the
\* delivery acknowledged
C10_Witness ==
    \E d \in Deliveries :
        /\ deliveries[d].outcome = "redelivered"
        /\ deliveries[d].ackAt = "open"
        /\ deliveries[d].acks = 1

\* the handler of delivery d ends in this step
Ended(d) == deliveries[d].phase # "done" /\ deliveries'[d].phase = "done"

\* what this step put in a queue is exactly message x in the consumer's queue
PublishedToQueue(x) ==
    broker'.ready = Append(broker.ready, x) /\ broker'.dead = broker.dead

\* what this step put in a queue is exactly message x in the error queue
PublishedToError(x) ==
    broker'.dead = Append(broker.dead, x) /\ broker'.ready = broker.ready

PublishedNothing == broker'.ready = broker.ready /\ broker'.dead = broker.dead

\* the message a handler publishes for message m with counter header h
Copy(m, h) == [m EXCEPT !.text = stringify(parse(m.text)), !.hdr = h]

\* the route is redelivery exactly when the consumer retries and the counter of
\* the delivery is below retry_count
RouteDecided(d) ==
    LET m == deliveries[d].msg
        again == retryOf(m.queue) /\ readCounter(m.hdr) < RetryCount
    IN /\ deliveries'[d].outcome = "redelivered" => again
       /\ deliveries'[d].outcome = "deadLettered" => ~again
       /\ deliveries[d].phase = "executing"
            /\ deliveries'[d].phase \notin {"executing", "done"} =>
              deliveries'[d].phase = IF again THEN "redeliver" ELSE "deadLetter"

AlwaysFailing(m) ==
    runs[m].queue # Null /\ retryOf(runs[m].queue) /\ ~runs[m].succeeded

\* the copies of message m in sequence q
CopiesIn(q, m) == {i \in 1..Len(q) : q[i].id = m}

\* a copy of message m is waiting in its queue, held unacknowledged on a
\* channel, or being handled
InFlight(m) ==
    \/ CopiesIn(broker.ready, m) # {}
    \/ \E i \in 1..Len(broker.unacked) : broker.unacked[i].msg.id = m
    \/ \E d \in Deliveries :
           deliveries[d].phase \notin {"none", "done"} /\ deliveries[d].msg.id = m

\* the retries of m so far are bounded as the policy says
BoundedRetries(m) ==
    /\ runs[m].executed <= RetryCount + 1
    /\ Len(runs[m].counters) <= RetryCount
    /\ \A i \in 1..Len(runs[m].counters) : runs[m].counters[i] = i
    /\ runs[m].executed \in {Len(runs[m].counters), Len(runs[m].counters) + 1}
    /\ Cardinality(CopiesIn(broker.dead, m)) <= 1
    /\ CopiesIn(broker.dead, m) # {} =>
           /\ runs[m].executed = RetryCount + 1
           /\ Len(runs[m].counters) = RetryCount
           /\ \A i \in CopiesIn(broker.dead, m) : broker.dead[i].hdr = <<RetryCount>>
           /\ ~InFlight(m)

\* C12: retries are bounded.  A message first delivered without a counter to a
\* consumer that retries, whose execute always fails, and whose handling is not
\* disturbed (the channel stays open and every publish goes through), is
\* executed at most retry_count + 1 times and redelivered with the counters
\* 1, 2, ... in that order; once it is in the error queue it was executed
\* exactly retry_count + 1 times and redelivered retry_count times, it is there
\* once with counter retry_count, and no copy of it is in flight any more.
C12_BoundedRetries ==
    \A m \in Deliveries :
        AlwaysFailing(m) /\ ~runs[m].disturbed => BoundedRetries(m)

\* C12 as stated: the same without the condition that the handling is not
\* disturbed
C12_AsStated == \A m \in Deliveries : AlwaysFailing(m) => BoundedRetries(m)

\* a message whose execute always failed is in the error queue with counter
\* retry_count after retry_count + 1 executions
C12_Witness ==
    \E m \in Deliveries :
        /\ AlwaysFailing(m) /\ ~runs[m].disturbed
        /\ CopiesIn(broker.dead, m) # {}
        /\ runs[m].executed = RetryCount + 1
        /\ runs[m].counters = [i \in 1..RetryCount |-> i]

\* there is at most one live connection and the class-level reference is it
OneLiveConnection ==
    /\ Cardinality(alive) <= 1
    /\ \A c \in alive : connection = c

\* invocation t enters the await of amqp.connect in this step
OpensConnection(t) == pc[t] # "amqpConnect" /\ pc'[t] = "amqpConnect"

\* invocation t enters the await of createChannel without having opened a
\* connection
ReusesConnection(t) ==
    pc[t] \notin {"amqpConnect", "createChannel"} /\ pc'[t] = "createChannel"

DelayOf(c) == IF c.options.delay = <<>> THEN 0 ELSE c.options.delay[1]

\* the delayed exchange of the call: '<exchange>-delayed', the exchange being
\* that of its options and Exchange_<queue> when they give none
DelayedExchangeOf(c) ==
    (IF c.options.exchange = <<>> THEN <<"Exchange_">> \o c.queue
     ELSE c.options.exchange[1]) \o <<"-delayed">>

\* the call declared the delayed exchange, bound its queue to it and published
\* through it with the header x-delay set to its delay, in that order
ViaDelayedExchange(c) ==
    \E i, j, k \in 1..Len(c.log) :
        /\ i < j /\ j < k /\ k = Len(c.log)
        /\ c.log[i].op = "assertExchange" /\ c.log[i].name = DelayedExchangeOf(c)
        /\ c.log[i].type[1] = "x-delayed-message"
        /\ c.log[j].op = "bindQueue" /\ c.log[j].name = DelayedExchangeOf(c)
        /\ c.log[j].queue = c.queue
        /\ c.log[k].op = "publish" /\ c.log[k].name = DelayedExchangeOf(c)
        /\ c.log[k].headers["x-delay"] = DelayOf(c)
        /\ c.log[k].content = stringify(c.message)
        /\ \A n \in 1..Len(c.log) : c.log[n].op # "sendToQueue"

\* the call sent to its queue, its last operation, and used no exchange
DirectToQueue(c) ==
    /\ c.log # <<>>
    /\ c.log[Len(c.log)].op = "sendToQueue"
    /\ c.log[Len(c.log)].queue = c.queue
    /\ c.log[Len(c.log)].content = stringify(c.message)
    /\ \A n \in 1..Len(c.log) :
           c.log[n].op \notin {"assertExchange", "bindQueue", "publish"}

\* the call declared its queue durable before its last operation
QueueDeclaredFirst(c) ==
    \E i \in 1..Len(c.log) :
        /\ i < Len(c.log)
        /\ c.log[i].op = "assertQueue" /\ c.log[i].queue = c.queue
        /\ c.log[i].durable

\* C14: a publish that returned has declared the delayed exchange
\* '<exchange>-delayed', bound the queue to it and published through it with
\* x-delay equal to the merged delay, whatever the delay; a sendToQueue that
\* returned has done the same exactly when the merged delay is above 0, and
\* has otherwise sent to the queue without declaring or using an exchange;
\* both declared the queue durable before they sent.
C14_PublishDelayedSendDirect ==
    call.result = "returned" =>
        /\ call.method = "publish" => ViaDelayedExchange(call)
        /\ call.method = "sendToQueue" =>
               /\ DelayOf(call) > 0 <=> ViaDelayedExchange(call)
               /\ ~(DelayOf(call) > 0) <=> DirectToQueue(call)
        /\ call.method \in {"publish", "sendToQueue"} => QueueDeclaredFirst(call)

\* a publish with delay 0 and a header x-delay of its own returned: it went
\* through the delayed exchange with x-delay 0
C14_Witness ==
    /\ call.method = "publish" /\ call.result = "returned"
    /\ call.options.delay = <<0>>
    /\ call.options.headers = <<"x-delay" :> 9>>
    /\ Len(call.log) = 4
    /\ call.log[4].op = "publish"
    /\ call.log[4].headers["x-delay"] = 0

\* the application calls a method of the manager's client in this step
Invoked == call.result # "pending" /\ call' # call

\* C15: a publish, sendToQueue, consume or getConsumerCount called on a client
\* without a channel throws the channel-unavailable error at once: it performs
\* no operation on the transport and changes nothing of the client, of the
\* manager, of the connection or of the queues.
C15_NoChannelThrowsUntouched ==
    [][Invoked /\ rabbitMQClient # Null /\ channel[rabbitMQClient] = Null =>
          /\ call'.method \in Methods
          /\ call'.result = "threw" /\ threw'
          /\ call'.error = "unavailable"
          /\ call'.log = <<>>
          /\ UNCHANGED <<mgrVars, clientVars, netVars, msgVars>>]_vars

\* a getConsumerCount on a client whose channel was closed threw unavailable
C15_Witness ==
    /\ call.method = "getConsumerCount"
    /\ call.result = "threw" /\ call.error = "unavailable"
    /\ call.log = <<>>
    /\ rabbitMQClient # Null /\ channel[rabbitMQClient] = Null
    /\ isConnected[rabbitMQClient]

\* a close() that awaited the channel or the connection returns in this step
CloseReturns(t) ==
    pc[t] \in {"closeChannel", "closeConn"} /\ pc'[t] = "idle" /\ ~threw'

CloseClearsReference ==
    [][\A t \in AppTasks :
          CloseReturns(t) => rabbitMQClient' = Null /\ ~IsConnected']_vars

\* C17: reset() sets the client reference to none and isConnecting to false
\* and leaves the rest as it is: isReconnecting, the connection URL and the
\* registered consumers are unchanged, no channel and no connection is closed,
\* no subscription ends, and the class-level connection of RabbitMQClient is
\* the one it was.
C17_ResetFrame ==
    [][Reset =>
          /\ rabbitMQClient' = Null
          /\ ~isConnecting'
          /\ UNCHANGED <<isReconnecting, connectionUrl, consumers>>
          /\ UNCHANGED <<connection, alive, closeHandler, channel, subscribed>>
          /\ UNCHANGED <<pc, msgVars, call>>]_vars

\* reset() was called on a connected manager with nothing in flight: it has no
\* client, and the connection and the channel of the client it had are open
C17_Witness ==
    /\ rabbitMQClient = Null /\ ~isConnecting
    /\ \A t \in Tasks : pc[t] = "idle"
    /\ connection \in alive
    /\ \E k \in ClientIds :
           channel[k] = connection /\ isConnected[k] /\ connectionLostCallback[k]

\* the pending call of publish or sendToQueue on client k fails in this step
SendFails(k) ==
    /\ call.result = "pending" /\ call.k = k
    /\ call.method \in {"publish", "sendToQueue"}
    /\ call'.result = "threw"

\* a connect() called now would not return at its connected check: it would
\* start a connect sequence
ConnectWouldRun ==
    LET n == connectEntry(Cur, "a1", "u1", TRUE)
    IN n.isConnecting /\ n.pc["a1"] \in {"amqpConnect", "createChannel"}

\* C18: a publish or sendToQueue that fails with an error saying that the
\* channel or the connection is closed leaves its client without channel and
\* not connected when it rethrows; when that client is the manager's,
\* isConnected() is false and a connect() called with no sequence in flight
\* starts one.  With any other error the call rethrows and the client's
\* channel and connected flag are what they were.
C18_ClosedErrorClearsState ==
    [][\A k \in ClientIds :
          SendFails(k) =>
              /\ threw'
              /\ call'.error \in {"Channel closed", "Connection closed"} =>
                    /\ ~isConnected'[k] /\ channel'[k] = Null
                    /\ rabbitMQClient' = k =>
                          /\ ~IsConnected'
                          /\ pc'["a1"] = "idle" /\ ~isConnecting' => ConnectWouldRun'
              /\ call'.error \notin {"Channel closed", "Connection closed"}
                   /\ rabbitMQClient' = k =>
                    /\ isConnected'[k] = isConnected[k]
                    /\ channel'[k] = channel[k]]_vars

\* a publish on the connected manager's client failed with 'Channel closed':
\* the client has no channel and is not connected, the connection is open
C18_Witness ==
    /\ call.method = "publish" /\ call.result = "threw"
    /\ call.error = "Channel closed"
    /\ call.log # <<>>
    /\ rabbitMQClient # Null
    /\ ~isConnected[rabbitMQClient] /\ channel[rabbitMQClient] = Null
    /\ connection \in alive
    /\ \A t \in Tasks : pc[t] = "idle"

\* C19: after a transport event - connection close, connection error,
\* channel close, channel error - that concerns the manager's client was
\* delivered, getConnectionStatus() of that client is false, and so is
\* isConnected() as long as it is the manager's client.
C19_EventClearsStatus ==
    event.k # Null =>
        /\ ~getConnectionStatus(Cur, event.k)
        /\ rabbitMQClient = event.k => ~IsConnected

\* the same for the three events whose handler clears something of the client
\* that the event concerns
CloseEventsClearStatus ==
    event.k # Null /\ event.kind \in {"connectionClose", "channelClose"} =>
        ~getConnectionStatus(Cur, event.k)

\* a connection 'error' was delivered on the connection of the manager's
\* client, which reused the connection another client had opened: the handler
\* cleared that other client and the manager's client still reports connected
ErrorOnReusedConnection ==
    /\ event.kind = "connectionError" /\ event.k # Null
    /\ getConnectionStatus(Cur, event.k)

\* C20: whenever the manager is connected, the client whose 'close' handler
\* is attached to the live connection is the manager's client and has the
\* manager's callback registered, so that a close of the connection reaches
\* handleConnectionLost.
C20_CallbackWired ==
    IsConnected =>
        /\ connection \in alive
        /\ closeHandler[connection] = rabbitMQClient
        /\ connectionLostCallback[closeHandler[connection]]

\* C21: the client a Publisher has cached is the manager's client whenever
\* the manager is connected, and a publish of the Publisher made while the
\* manager is connected does not fail for want of a channel.
C21_CachedClientIsCurrent ==
    IsConnected =>
        /\ cachedClient # Null => cachedClient = rabbitMQClient
        /\ ~(threw /\ call.result = "threw" /\ call.error = "unavailable")

\* C22: a close() called by the application starts no reconnection: in the
\* step in which its connection.close() resolves and close() returns, no
\* handleConnectionLost begins and none is left running, and the manager has
\* no client.
C22_CloseStartsNoReconnection ==
    [][\A t \in AppTasks :
          pc[t] = "closeConn" /\ CloseReturns(t) =>
              /\ isReconnecting' = isReconnecting
              /\ \A h \in LostTasks : pc'[h] = pc[h]
              /\ ~isReconnecting'
              /\ rabbitMQClient' = Null]_vars

\* C23: whenever RabbitMQConnection.isConnected() is true, the connection
\* shared by the clients exists and is alive, and the channel of the manager's
\* client is a channel of that connection.
C23_ConnectedMeansAlive ==
    IsConnected =>
        /\ connection # Null
        /\ connection \in alive
        /\ channel[rabbitMQClient] = connection

\* the startConsumers loops that are running
StartingConsumers == {t \in Tasks : pc[t] = "consume"}

\* task t has called consume() of consumer c on the channel of client k
Consuming(t, k, c) ==
    pc[t] = "consume" /\ self[t] = k /\ list[t][idx[t]] = c

\* C24: no consumer is started twice on the same client: consume() is never
\* called for a consumer on a client on which that consumer is subscribed or
\* on which another loop is subscribing it, and two startConsumers loops never
\* run at the same time.
C24_ConsumersStartedOnce ==
    /\ Cardinality(StartingConsumers) <= 1
    /\ \A t \in Tasks, k \in ClientIds, c \in ConsumerIds :
          Consuming(t, k, c) =>
              /\ <<k, c>> \notin subscribed
              /\ \A o \in Tasks \ {t} : ~Consuming(o, k, c)

\* the connect loop of invocation t ends with success in this step
LoopSucceeds(t) ==
    InLoop(t) /\ pc'[t] \in {"consume", "idle"} /\ ~threw'

\* C25: also with reset() called while a connect sequence is in flight and
\* connect() called again, at most one invocation is inside the connect loop,
\* and when a connect loop ends with success the manager's client is connected
\* and has the connection-lost callback registered.
C25_SingleSequenceAfterReset ==
    /\ [](Cardinality({t \in Tasks : InLoop(t)}) <= 1)
    /\ [][\A t \in Tasks :
             LoopSucceeds(t) =>
                 /\ rabbitMQClient' # Null
                 /\ IsConnected'
                 /\ connectionLostCallback'[rabbitMQClient']]_vars

====
